---- MODULE Spec2Model ----
(***************************************************************************)
(* Model of the DeAI API MCP server (src/src/server.js): the tool-call     *)
(* handler, the API client's makeRequest and the list formatters.          *)
(*                                                                         *)
(* One tool invocation is followed from the host's request to the result   *)
(* handed back to the host.  The handler has one suspension point, the     *)
(* outstanding fetch; everything before it and everything after it runs    *)
(* without interleaving, so each is one action.                            *)
(***************************************************************************)
EXTENDS Integers, Sequences, FiniteSets, TLC

\* ------------------------------------------------------------------ bounds
\* longest list an upstream payload carries
MaxList == 11
\* longest list that may contain null entries
MaxNullList == 2

\* ------------------------------------------------------- program constants
\* /^0x[a-fA-F0-9]{40}$/ : number of hexadecimal characters
HexLen == 40
\* .slice(0, 10) : number of list entries shown
TopN == 10

\* ------------------------------------------------------------ record shapes
\* Every record of the model is built by one of these constructors, and each
\* constructor names its fields in the order in which the field names first
\* occur in this module, so that a record is in TLC's normal form from the
\* moment it is built.
\* a JavaScript value handed in as an argument: its typeof and, for a
\* string, its characters
JSValue(type, chars) == [type |-> type, chars |-> chars]

\* An error message is kept in parts: the fixed prefix, the HTTP status it
\* quotes (0 for none) and the sequence of texts that are joined after it.
Msg(prefix, status, detail) ==
  [prefix |-> prefix, status |-> status, detail |-> detail]

\* a thrown error: its class, its name property, its McpError code, its message
Error(cls, nm, code, msg) ==
  [cls |-> cls, code |-> code, name |-> nm, message |-> msg]

\* the value JSON.parse returns (ok) or its failure (not ok); message and
\* error are the fields of that name, "" when the value has none
Parsed(ok, type, message, error) ==
  [type |-> type, message |-> message, ok |-> ok, error |-> error]

\* what became of the outstanding request
Upstream(kind, errName, ok, status, text, wellFormed, json) ==
  [status |-> status, ok |-> ok, kind |-> kind, errName |-> errName,
   text |-> text, wellFormed |-> wellFormed, json |-> json]

\* the JSON value of a 2xx body: whether it is null, whether its scalar
\* top-level fields (names, totals, prices) are there, the shape of its
\* summary, token1 and token2 fields, and the shape and entries of its list
Result(isNull, scalars, summary, t1, t2, shape, entries) ==
  [isNull |-> isNull, scalars |-> scalars, summary |-> summary,
   token1 |-> t1, token2 |-> t2, listShape |-> shape, list |-> entries]

\* request.params.arguments
ArgObject(p, c, w, t1, t2) ==
  [token1 |-> t1, token2 |-> t2, present |-> p, contractAddress |-> c,
   walletAddress |-> w]

\* an entry of a payload's list and a numbered line of the output
ListEntry(isNull, key) == [isNull |-> isNull, key |-> key]

Line(num, entry) == [num |-> num, entry |-> entry]

\* an HTTP request
Request(method, path, params) ==
  [method |-> method, path |-> path, params |-> params]

\* the settlement of an awaited step: the error thrown (NoError for none)
\* and the value returned
Settled(err, data) == [err |-> err, data |-> data]

FormatResult(err, items, placeholder, slots) ==
  [err |-> err, items |-> items, placeholder |-> placeholder, slots |-> slots]

CallResult(err, request) == [err |-> err, request |-> request]

\* what the handler returned ("success") or threw ("error")
Outcome(kind, cls, code, message, items, placeholder, slots) ==
  [cls |-> cls, code |-> code, message |-> message, kind |-> kind,
   items |-> items, placeholder |-> placeholder, slots |-> slots]

\* process.env.API_KEY
EnvVar(set, value) == [set |-> set, value |-> value]

\* ------------------------------------------------------------ JS values
\* A string is a sequence of one-character strings.
Rep(c, n) == [i \in 1..n |-> c]

Undefined == JSValue("undefined", <<>>)
NumberVal == JSValue("number", <<>>)
Str(s) == JSValue("string", s)

HexChars ==
  {"0", "1", "2", "3", "4", "5", "6", "7", "8", "9",
   "a", "b", "c", "d", "e", "f", "A", "B", "C", "D", "E", "F"}

\* the regular expression of EthereumAddressSchema, matched against a string
AddressRegexLoose(s) ==
  /\ Len(s) >= 2
  /\ s[1] = "0"
  /\ s[2] = "x"
  /\ \A i \in 3..Len(s) : s[i] \in HexChars

AddressRegex(s) ==
  /\ Len(s) = 2 + HexLen
  /\ s[1] = "0"
  /\ s[2] = "x"
  /\ \A i \in 3..Len(s) : s[i] \in HexChars

\* EthereumAddressSchema.parse(v): the issue zod raises, "" when v parses
EthereumAddressSchema(v) ==
  IF v.type = "undefined" THEN "Required"
  ELSE IF v.type # "string" THEN "Expected string, received number"
  ELSE IF ~AddressRegex(v.chars) THEN "Invalid Ethereum address format"
  ELSE ""

\* ------------------------------------------------------------- tool table
TOOLS ==
  {"get_token_info", "get_top_holders", "get_token_holder_balance_changes",
   "get_portfolio", "get_average_entry_analysis", "get_two_token_overlap"}

\* the argument fields a tool's case parses, in the order it parses them
ParsedFields(tool) ==
  IF tool = "get_portfolio" THEN <<"walletAddress">>
  ELSE IF tool = "get_two_token_overlap" THEN <<"token1", "token2">>
  ELSE <<"contractAddress">>

\* the endpoint path each client method requests
EndpointPath(tool) ==
  CASE tool = "get_token_info" -> "/api/token/token-info/"
    [] tool = "get_top_holders" -> "/api/token/top-holders/"
    [] tool = "get_token_holder_balance_changes" ->
         "/api/token/token-holder-balance-changes/"
    [] tool = "get_portfolio" -> "/api/token/portfolio/"
    [] tool = "get_average_entry_analysis" -> "/api/token/avg-entry/"
    [] OTHER -> "/api/token/two-token-overlap"

\* the switch of the handler: the case label taken, "default" for no match
SwitchCaseNoDefault(n) ==
  IF n \in TOOLS THEN n ELSE "get_token_info"

SwitchCase(n) ==
  IF n \in {"get_token_info", "get_top_holders",
            "get_token_holder_balance_changes", "get_portfolio",
            "get_average_entry_analysis", "get_two_token_overlap"}
  THEN n ELSE "default"

\* ------------------------------------------------------------------ errors
McpError(code, msg) == Error("McpError", "McpError", code, msg)

TypeError(text) == Error("TypeError", "TypeError", "", Msg("", 0, <<text>>))

ZodError(issues) == Error("ZodError", "ZodError", "", Msg("", 0, issues))

NoError == Error("", "", "", Msg("", 0, <<>>))

\* ------------------------------------------------------------ API client
\* method = "GET" : the default parameter of makeRequest
DefaultMethodPost == "POST"

DefaultMethod == "GET"

\* JSON.parse(errorText) on the body texts the upstream sends with a non-2xx
\* status: ok is FALSE when the text is not JSON; message and error are the
\* fields of that name, "" when the value has none
JSONParse(text) ==
  CASE text = "{\"message\":\"bad key\"}" ->
         Parsed(TRUE, "object", "bad key", "")
    [] text = "{\"error\":\"forbidden\"}" ->
         Parsed(TRUE, "object", "", "forbidden")
    [] text = "{\"message\":\"limit\",\"error\":\"E429\"}" ->
         Parsed(TRUE, "object", "limit", "E429")
    [] text = "{\"code\":5}" ->
         Parsed(TRUE, "object", "", "")
    [] text = "null" ->
         Parsed(TRUE, "null", "", "")
    [] text = "\"down\"" ->
         Parsed(TRUE, "string", "", "")
    [] OTHER ->
         Parsed(FALSE, "", "", "")

\* a || b on strings
OrElse(a, b) == IF a # "" THEN a ELSE b

\* the try block of makeRequest, given what the upstream does with the
\* request: the error thrown in it (NoError for none) and the data returned
MakeRequestTry(up) ==
  IF up.kind = "fault"
  THEN Settled(TypeError("fetch failed"), up.json)
  ELSE IF up.kind = "timeout"
  THEN Settled(Error("DOMException", up.errName, "",
                     Msg("", 0, <<"The operation was aborted">>)),
               up.json)
  ELSE IF ~up.ok
  THEN LET parsed == JSONParse(up.text)
           errorData == IF parsed.ok THEN parsed
                        ELSE Parsed(TRUE, "object", up.text, "")
       IN IF errorData.type = "null"
          THEN Settled(TypeError("Cannot read properties of null (reading 'message')"),
                       up.json)
          ELSE Settled(McpError("InternalError",
                         Msg("API Error", up.status,
                             <<OrElse(errorData.message,
                                      OrElse(errorData.error, "Unknown error"))>>)),
                       up.json)
  ELSE IF ~up.wellFormed
  THEN Settled(Error("SyntaxError", "SyntaxError", "",
                     Msg("", 0, <<"Unexpected token in JSON">>)),
               up.json)
  ELSE Settled(NoError, up.json)

\* the catch block of makeRequest
MakeRequestCatch(error) ==
  IF error.cls = "McpError" THEN error
  ELSE IF error.name = "AbortError"
  THEN McpError("InternalError",
                Msg("Request timeout", 0, <<"API took too long to respond">>))
  ELSE McpError("InternalError", Msg("Request error", 0, error.message.detail))

\* makeRequest from the moment fetch settles
makeRequest(up) ==
  LET r == MakeRequestTry(up)
  IN IF r.err = NoError THEN r
     ELSE Settled(MakeRequestCatch(r.err), r.data)

\* -------------------------------------------------------------- formatters
\* A list entry of a payload is null or an object; of an object the model
\* keeps one number, its key: valueUSD for a token balance (0 also stands for
\* an absent valueUSD, which `|| 0` reads as 0), the holder otherwise.
Entry(k) == ListEntry(FALSE, k)
NullEntry == ListEntry(TRUE, 0)

Min(a, b) == IF a < b THEN a ELSE b

\* Array.prototype.slice(0, n)
SliceAll(s, n) == s

Slice(s, n) == SubSeq(s, 1, Min(Len(s), n))

\* x put into a list sorted by descending key, behind the entries whose key
\* is not smaller (Array.prototype.sort is stable)
RECURSIVE InsertDesc(_, _)
InsertDesc(sorted, x) ==
  IF sorted = <<>> THEN <<x>>
  ELSE IF Head(sorted).key >= x.key
       THEN <<Head(sorted)>> \o InsertDesc(Tail(sorted), x)
       ELSE <<x>> \o sorted

\* .sort((a, b) => (b.valueUSD || 0) - (a.valueUSD || 0))
RECURSIVE SortByValueDesc(_)
SortByValueDesc(s) ==
  IF s = <<>> THEN <<>>
  ELSE InsertDesc(SortByValueDesc(SubSeq(s, 1, Len(s) - 1)), s[Len(s)])

\* .map((entry, index) => `${index + 1}. ...`)
NumberedFromZero(s) == [i \in 1..Len(s) |-> Line(i - 1, s[i])]

Numbered(s) == [i \in 1..Len(s) |-> Line(i, s[i])]

HasNullEntry(s) == \E i \in 1..Len(s) : s[i].isNull

InvalidFormat ==
  McpError("InternalError", Msg("Invalid response format from API", 0, <<>>))

Formatted(items, placeholder) == FormatResult(NoError, items, placeholder, <<>>)

FormatThrows(e) == FormatResult(e, <<>>, FALSE, <<>>)

\* A field of the payload is absent (missing, null), a scalar, an object
\* without the fields the template reads ("bare") or an object with them.
Truthy(shape) == shape # "absent"

HasFields(shape) == shape \in {"object", "full"}

\* what a slot of the template shows for a field: `x || "N/A"` and its
\* kin (?. with ||, a conditional) fall back to a placeholder, a plain
\* ${x} prints the absent field as "undefined"
Guarded(present) == IF present THEN "value" ELSE "N/A"

Interpolated(present) == IF present THEN "value" ELSE "undefined"

\* the slots of a case's template outside its list block
HeaderSlots(tool, result) ==
  IF tool = "get_average_entry_analysis"
  THEN <<Guarded(result.scalars), Guarded(HasFields(result.summary))>>
  ELSE IF tool = "get_two_token_overlap"
  THEN <<Guarded(HasFields(result.token1)), Interpolated(HasFields(result.token1)),
         Guarded(HasFields(result.token2)), Interpolated(HasFields(result.token2)),
         Guarded(result.scalars)>>
  ELSE <<Guarded(result.scalars)>>

\* the slots of the lines of overlapList that show fields of the payload
\* itself: ${result.token1.symbol} and ${result.token2.symbol}
LineSlots(tool, result, items) ==
  IF tool = "get_two_token_overlap" /\ items # <<>>
  THEN <<Interpolated(HasFields(result.token1)),
         Interpolated(HasFields(result.token2))>>
  ELSE <<>>

\* the text of a case: its list block inside its template
Template(tool, result, block) ==
  IF block.err # NoError THEN block
  ELSE FormatResult(NoError, block.items, block.placeholder,
                    HeaderSlots(tool, result)
                      \o LineSlots(tool, result, block.items))

\* the list block of a case: the entries taken, sorted when the case sorts,
\* and numbered; reading a field of a null entry is a TypeError
ListBlock(tool, list) ==
  LET taken == Slice(list, TopN)
  IN IF HasNullEntry(taken)
     THEN FormatThrows(TypeError("Cannot read properties of null"))
     ELSE IF tool = "get_portfolio"
          THEN Formatted(Numbered(SortByValueDesc(taken)), FALSE)
          ELSE Formatted(Numbered(taken), FALSE)

\* the part of a case that follows `await client.get...`: the shape check
\* and the construction of the text
Format(tool, result) ==
  IF tool = "get_token_info"
  THEN IF result.isNull
       THEN FormatThrows(TypeError("Cannot read properties of null (reading 'name')"))
       ELSE Template(tool, result, Formatted(<<>>, FALSE))
  ELSE IF tool \in {"get_top_holders", "get_token_holder_balance_changes",
                    "get_portfolio"}
  THEN IF result.isNull \/ result.listShape # "array"
       THEN FormatThrows(InvalidFormat)
       ELSE Template(tool, result, ListBlock(tool, result.list))
  ELSE IF \/ result.isNull
          \/ (tool = "get_average_entry_analysis" /\ ~Truthy(result.summary))
          \/ (tool = "get_two_token_overlap"
                /\ (~Truthy(result.token1) \/ ~Truthy(result.token2)))
  THEN FormatThrows(InvalidFormat)
  ELSE IF result.listShape = "absent"
  THEN Template(tool, result, Formatted(<<>>, TRUE))
  ELSE IF result.listShape # "array"
  THEN FormatThrows(TypeError("slice is not a function"))
  ELSE LET block == ListBlock(tool, result.list)
       IN IF block.err = NoError /\ block.items = <<>>
          THEN Template(tool, result, Formatted(<<>>, TRUE))
          ELSE Template(tool, result, block)

\* ----------------------------------------------------------------- handler
\* !apiKey is false
HasApiKeyUnchecked(k) == TRUE

HasApiKey(k) == k.set /\ k.value # ""

MissingKeyMessage ==
  Msg("API_KEY environment variable is required. Set it with your DeAI API key.",
      0, <<>>)

\* the EthereumAddressSchema.parse calls of a case, from the i-th on: the
\* error the first failing one throws, NoError when all pass.  Reading a
\* field of an absent argument object is a TypeError.
RECURSIVE ParseArgs(_, _, _)
ParseArgs(a, fields, i) ==
  IF i > Len(fields) THEN NoError
  ELSE IF ~a.present
  THEN TypeError("Cannot read properties of undefined")
  ELSE LET issue == EthereumAddressSchema(a[fields[i]])
       IN IF issue # "" THEN ZodError(<<issue>>)
          ELSE ParseArgs(a, fields, i + 1)

\* the catch block of the handler
HandlerCatchRethrow(error) == error

HandlerCatch(error) ==
  IF error.cls = "ZodError"
  THEN McpError("InvalidParams", Msg("Invalid parameters", 0, error.message.detail))
  ELSE IF error.cls = "McpError" THEN error
  ELSE McpError("InternalError", Msg("Unexpected error", 0, error.message.detail))

NoRequest == Request("", "", <<>>)

\* the handler up to its first await: the error it throws (NoError when it
\* reaches fetch) and the request it issues
HandleCall(n, a, key) ==
  IF ~HasApiKey(key)
  THEN CallResult(McpError("InvalidRequest", MissingKeyMessage), NoRequest)
  ELSE LET tool == SwitchCase(n)
       IN IF tool = "default"
          THEN CallResult(HandlerCatch(McpError("MethodNotFound",
                                                Msg("Tool not found", 0, <<n>>))),
                          NoRequest)
          ELSE LET parsed == ParseArgs(a, ParsedFields(tool), 1)
               IN IF parsed # NoError
                  THEN CallResult(HandlerCatch(parsed), NoRequest)
                  ELSE CallResult(NoError,
                         Request(DefaultMethod, EndpointPath(tool),
                                 [i \in 1..Len(ParsedFields(tool)) |->
                                    a[ParsedFields(tool)[i]].chars]))

NoOutcome ==
  Outcome("none", "", "", Msg("", 0, <<>>), <<>>, FALSE, <<>>)

Failure(e) ==
  Outcome("error", e.cls, e.code, e.message, <<>>, FALSE, <<>>)

Success(f) ==
  Outcome("success", "", "", Msg("", 0, <<>>), f.items, f.placeholder, f.slots)

\* the handler from the moment fetch settles to its return or throw
HandleResume(n, up) ==
  LET r == makeRequest(up)
  IN IF r.err # NoError THEN Failure(HandlerCatch(r.err))
     ELSE LET f == Format(SwitchCase(n), r.data)
          IN IF f.err # NoError THEN Failure(HandlerCatch(f.err))
             ELSE Success(f)

\* ------------------------------------------------------------------ inputs
Prefix == <<"0", "x">>

ValidAddresses ==
  {Str(Prefix \o Rep("a", HexLen)),
   Str(Prefix \o Rep("F", HexLen - 1) \o <<"9">>)}

InvalidStrings ==
  {Str(<<>>),
   Str(Prefix \o Rep("a", HexLen - 1)),
   Str(Prefix \o Rep("a", HexLen + 1)),
   Str(<<"0", "X">> \o Rep("a", HexLen)),
   Str(Rep("a", HexLen + 2)),
   Str(Prefix \o Rep("a", HexLen - 1) \o <<"g">>),
   Str(Prefix \o Rep("a", HexLen) \o <<"\n">>),
   Str(<<" ">> \o Prefix \o Rep("a", HexLen))}

ArgValues == ValidAddresses \cup InvalidStrings \cup {Undefined, NumberVal}

\* request.params.arguments: absent, or an object with the fields of one tool
ArgObjects ==
  {ArgObject(FALSE, Undefined, Undefined, Undefined, Undefined)}
    \cup {ArgObject(TRUE, v, Undefined, Undefined, Undefined) : v \in ArgValues}
    \cup {ArgObject(TRUE, Undefined, v, Undefined, Undefined) : v \in ArgValues}
    \cup {ArgObject(TRUE, Undefined, Undefined, v[1], v[2]) :
            v \in ArgValues \X ArgValues}

CallNames == TOOLS \cup {"get_token_price", ""}

\* process.env.API_KEY: unset, empty or a key
ApiKeys ==
  {EnvVar(FALSE, ""), EnvVar(TRUE, ""), EnvVar(TRUE, "secret")}

NullResult == Result(TRUE, FALSE, "absent", "absent", "absent", "absent", <<>>)

SummaryShapes == {"absent", "scalar", "object"}

TokenShapes == {"absent", "scalar", "bare", "full"}

PlainEntries == {Entry(0), Entry(1)}

\* the lists a 2xx payload carries
Lists ==
  UNION {[1..n -> PlainEntries] : n \in 0..MaxList}
    \cup UNION {[1..n -> PlainEntries \cup {NullEntry}] : n \in 0..MaxNullList}

\* the JSON values a 2xx body parses to
Results ==
  {NullResult}
    \cup {Result(FALSE, f[1], f[2], f[3], f[4], shape, <<>>) :
            f \in BOOLEAN \X SummaryShapes \X TokenShapes \X TokenShapes,
            shape \in {"absent", "object", "array"}}
    \cup {Result(FALSE, TRUE, "object", "full", "full", "array", l) :
            l \in Lists}
    \cup {Result(FALSE, FALSE, "object", t[1], t[2], "array", l) :
            t \in {"bare", "full"} \X {"bare", "full"},
            l \in UNION {[1..n -> PlainEntries] : n \in 0..MaxNullList}}

Statuses == {401, 500}

ErrorTexts ==
  {"", "Bad Gateway", "{\"message\":\"bad key\"}", "{\"error\":\"forbidden\"}",
   "{\"message\":\"limit\",\"error\":\"E429\"}", "{\"code\":5}", "null",
   "\"down\""}

\* the name of the DOMException fetch rejects with when the signal of
\* AbortSignal.timeout fires: TimeoutError where fetch rejects with the
\* signal's reason, AbortError on the runtimes that do not
TimeoutErrorNames == {"TimeoutError", "AbortError"}

NoUpstream == Upstream("none", "", FALSE, 0, "", FALSE, NullResult)

\* ----------------------------------------------------------- state machine
VARIABLES
  API_KEY,   \* process.env.API_KEY
  pc,        \* "idle", "awaitFetch" (suspended in makeRequest) or "done"
  name,      \* request.params.name
  args,      \* request.params.arguments
  requests,  \* the HTTP requests the invocation has issued
  upstream,  \* what became of the outstanding request
  outcome    \* what the handler returned or threw

vars == <<API_KEY, pc, name, args, requests, upstream, outcome>>

NoArgs == ArgObject(FALSE, Undefined, Undefined, Undefined, Undefined)

Init ==
  /\ API_KEY \in ApiKeys
  /\ pc = "idle"
  /\ name = ""
  /\ args = NoArgs
  /\ requests = <<>>
  /\ upstream = NoUpstream
  /\ outcome = NoOutcome

\* the host calls a tool: the handler runs to its first await or to a throw
CallTool(n, a) ==
  /\ pc = "idle"
  /\ name' = n
  /\ args' = a
  /\ LET r == HandleCall(n, a, API_KEY)
     IN IF r.err # NoError
        THEN /\ pc' = "done"
             /\ outcome' = Failure(r.err)
             /\ requests' = requests
        ELSE /\ pc' = "awaitFetch"
             /\ outcome' = outcome
             /\ requests' = Append(requests, r.request)
  /\ UNCHANGED <<API_KEY, upstream>>

\* fetch settles and the handler runs to its end
Settle(up) ==
  /\ pc = "awaitFetch"
  /\ upstream' = up
  /\ outcome' = HandleResume(name, up)
  /\ pc' = "done"
  /\ UNCHANGED <<API_KEY, name, args, requests>>

\* the upstream answers 2xx with a body that is JSON
RespondOk(result) ==
  Settle(Upstream("response", "", TRUE, 200, "", TRUE, result))

\* the upstream answers 2xx with a body that is not JSON
RespondMalformed ==
  Settle(Upstream("response", "", TRUE, 200, "", FALSE, NullResult))

\* the upstream answers with a non-2xx status
RespondError(status, text) ==
  Settle(Upstream("response", "", FALSE, status, text, FALSE, NullResult))

\* the 30 s of AbortSignal.timeout pass before the response is complete
FetchTimeout(errName) ==
  Settle(Upstream("timeout", errName, FALSE, 0, "", FALSE, NullResult))

\* the connection fails
FetchFault ==
  Settle(Upstream("fault", "", FALSE, 0, "", FALSE, NullResult))

\* the result goes to the host; the next invocation starts from nothing
Deliver ==
  /\ pc = "done"
  /\ pc' = "idle"
  /\ name' = ""
  /\ args' = NoArgs
  /\ requests' = <<>>
  /\ upstream' = NoUpstream
  /\ outcome' = NoOutcome
  /\ UNCHANGED API_KEY

Next ==
  \/ \E n \in CallNames, a \in ArgObjects : CallTool(n, a)
  \/ \E result \in Results : RespondOk(result)
  \/ RespondMalformed
  \/ \E status \in Statuses, text \in ErrorTexts : RespondError(status, text)
  \/ \E errName \in TimeoutErrorNames : FetchTimeout(errName)
  \/ FetchFault
  \/ Deliver

Spec == Init /\ [][Next]_vars

TypeOK ==
  /\ API_KEY \in ApiKeys
  /\ pc \in {"idle", "awaitFetch", "done"}
  /\ name \in CallNames
  /\ args \in ArgObjects
  /\ Len(requests) \in 0..1

\* ------------------------------------------------------ vocabulary of the claims
\* inputSchema.required of a tool descriptor
RequiredFields(tool) ==
  IF tool = "get_portfolio" THEN {"walletAddress"}
  ELSE IF tool = "get_two_token_overlap" THEN {"token1", "token2"}
  ELSE {"contractAddress"}

\* a string of the form 0x + 40 hexadecimal digits
WellFormedAddress(v) ==
  /\ v.type = "string"
  /\ Len(v.chars) = HexLen + 2
  /\ SubSeq(v.chars, 1, 2) = <<"0", "x">>
  /\ \A i \in 3..(HexLen + 2) :
       v.chars[i] \in {"0", "1", "2", "3", "4", "5", "6", "7", "8", "9",
                       "a", "b", "c", "d", "e", "f",
                       "A", "B", "C", "D", "E", "F"}

\* the value the call supplies for a field
Supplied(f) == IF args.present THEN args[f] ELSE Undefined

\* the required fields of the called tool whose supplied value is not an address
ViolatedFields ==
  IF name \in TOOLS
  THEN {f \in RequiredFields(name) : ~WellFormedAddress(Supplied(f))}
  ELSE {}

CredentialPresent == API_KEY.set /\ API_KEY.value # ""

Called == pc # "idle"

Failed == pc = "done" /\ outcome.kind = "error"

Succeeded == pc = "done" /\ outcome.kind = "success"

ErrorCodes == {"InvalidRequest", "InvalidParams", "MethodNotFound", "InternalError"}

\* ------------------------------------------------------------------ claims

\* C1: a call of a registered tool that supplies, for one of the tool's
\* address arguments, a value that is not a string of the form 0x + 40 hex
\* digits fails without having issued any upstream request (for
\* get_two_token_overlap: a request is issued only if token1 and token2 are
\* both valid).
C1_InvalidAddressIssuesNoRequest ==
  (Called /\ ViolatedFields # {}) => (Failed /\ requests = <<>>)

C1_Witness ==
  /\ Failed
  /\ CredentialPresent
  /\ name = "get_two_token_overlap"
  /\ ViolatedFields = {"token2"}
  /\ args.token2.type = "string"
  /\ requests = <<>>

\* C2: with API_KEY unset every call fails with InvalidRequest and one fixed
\* message, whatever the tool name and the arguments, and issues no request.
C2_MissingCredentialFailsFirst ==
  (Called /\ ~API_KEY.set) =>
    /\ Failed
    /\ outcome.cls = "McpError"
    /\ outcome.code = "InvalidRequest"
    /\ outcome.message = MissingKeyMessage
    /\ requests = <<>>

C2_Witness ==
  /\ Failed
  /\ ~API_KEY.set
  /\ name \in TOOLS
  /\ args.present
  /\ ViolatedFields = {}
  /\ outcome.code = "InvalidRequest"

\* C3 as stated: a call of a name that is not one of the six registered
\* tools fails with MethodNotFound and issues no request.
C3_Original ==
  (Called /\ name \notin TOOLS) =>
    (Failed /\ outcome.code = "MethodNotFound" /\ requests = <<>>)

\* C3 amended: when the API credential is configured, a call of a name that
\* is not one of the six registered tools fails with MethodNotFound and
\* issues no request.
C3_UnknownToolWithCredential ==
  (Called /\ CredentialPresent /\ name \notin TOOLS) =>
    (Failed /\ outcome.code = "MethodNotFound" /\ requests = <<>>)

C3_Witness ==
  /\ Failed
  /\ CredentialPresent
  /\ name = "get_token_price"
  /\ args.present
  /\ outcome.code = "MethodNotFound"
  /\ requests = <<>>

\* C4 as stated: with the credential configured, a call of a registered tool
\* whose arguments fail validation (an address that does not match, a
\* required field missing, the argument object absent) fails with
\* InvalidParams and its message lists one violation per violated field.
C4_ValidationFailureIsInvalidParams ==
  (Called /\ CredentialPresent /\ ViolatedFields # {}) =>
    /\ Failed
    /\ outcome.code = "InvalidParams"
    /\ Len(outcome.message.detail) = Cardinality(ViolatedFields)

C6_ExpectedDetail(text) ==
  LET parsed == JSONParse(text)
  IN IF parsed.ok /\ parsed.message # "" THEN parsed.message
     ELSE IF parsed.ok /\ parsed.error # "" THEN parsed.error
     ELSE IF text # "" THEN text
     ELSE "Unknown error"

\* C6 as stated: for every non-2xx response, whatever its body, the call
\* fails with InternalError and a message that quotes the status code and
\* the detail chosen as message field, else error field, else raw body
\* text, else "Unknown error".
C6_Non2xxQuotesStatusAndDetail ==
  (pc = "done" /\ upstream.kind = "response" /\ ~upstream.ok) =>
    /\ Failed
    /\ outcome.code = "InternalError"
    /\ outcome.message.status = upstream.status
    /\ outcome.message.detail = <<C6_ExpectedDetail(upstream.text)>>

\* C7 as stated: when the deadline passes before the response is complete,
\* the call fails with InternalError and the timeout message, not with the
\* message of the other transport failures.
C7_TimeoutHasItsOwnMessage ==
  (pc = "done" /\ upstream.kind = "timeout") =>
    /\ Failed
    /\ outcome.code = "InternalError"
    /\ outcome.message.prefix = "Request timeout"

\* C8: an invocation issues at most one request, every request is a GET, it
\* issues exactly one when the credential is present, the tool registered and
\* the arguments valid, and a failed request is not issued again.
C8_AtMostOneGet ==
  /\ Len(requests) <= 1
  /\ \A i \in 1..Len(requests) : requests[i].method = "GET"
  /\ (Called /\ CredentialPresent /\ name \in TOOLS /\ ViolatedFields = {}) =>
       Len(requests) = 1
  /\ (pc = "done" /\ upstream.kind # "none") => Len(requests) = 1

C8_Witness ==
  /\ Failed
  /\ upstream.kind = "response"
  /\ ~upstream.ok
  /\ Len(requests) = 1
  /\ requests[1].method = "GET"

\* the entries of a formatted list, without their numbers
Shown == [i \in 1..Len(outcome.items) |-> outcome.items[i].entry]

\* C9 as stated: the portfolio output lists the (up to) 10 entries of
\* tokenBalances with the highest USD value, in descending order of value.
C9_PortfolioShowsTopTenByValue ==
  (Succeeded /\ name = "get_portfolio") =>
    Shown = SubSeq(SortByValueDesc(upstream.json.list), 1,
                   Min(Len(upstream.json.list), TopN))

\* C10: a list of n entries is shown as min(n, 10) entries numbered
\* 1..min(n, 10); holders, balance changes, average-entry holders and
\* overlaps are the first min(n, 10) entries of the input in input order.
C10_ListsShowFirstTen ==
  (Succeeded /\ name # "get_token_info" /\ upstream.json.listShape = "array") =>
    LET list == upstream.json.list
        shown == Min(Len(list), TopN)
    IN /\ Len(outcome.items) = shown
       /\ \A i \in 1..Len(outcome.items) : outcome.items[i].num = i
       /\ name # "get_portfolio" => Shown = SubSeq(list, 1, shown)

C10_Witness ==
  /\ Succeeded
  /\ name = "get_top_holders"
  /\ Len(upstream.json.list) = TopN + 1
  /\ Len(outcome.items) = TopN
  /\ outcome.items[TopN].num = TopN

\* the upstream answered 2xx with a JSON body and the handler has finished
Answered ==
  pc = "done" /\ upstream.kind = "response" /\ upstream.ok /\ upstream.wellFormed

\* the payload differs from a complete one only by absent (missing or null)
\* fields and entries, and passes the container checks of the called tool
C11_OnlyAbsences ==
  LET json == upstream.json
  IN IF name = "get_token_info" THEN TRUE
     ELSE IF name = "get_average_entry_analysis"
     THEN /\ ~json.isNull
          /\ json.summary = "object"
          /\ json.listShape \in {"absent", "array"}
     ELSE IF name = "get_two_token_overlap"
     THEN /\ ~json.isNull
          /\ json.token1 \in {"bare", "full"}
          /\ json.token2 \in {"bare", "full"}
          /\ json.listShape \in {"absent", "array"}
     ELSE ~json.isNull /\ json.listShape = "array"

\* C11 as stated: when the container checks pass, an absent field at any
\* depth (a null list entry, a null result of get_token_info, the symbol and
\* address of token1 and token2 included) is shown as a placeholder: the call
\* succeeds and no slot of the text shows "undefined".
C11_AbsentFieldsBecomePlaceholders ==
  (Answered /\ C11_OnlyAbsences) =>
    /\ Succeeded
    /\ \A i \in 1..Len(outcome.slots) : outcome.slots[i] # "undefined"

\* a structurally required top-level field of the payload is absent or is
\* not the container the called tool expects, or the payload is null
C12_ShapeBroken ==
  LET json == upstream.json
  IN \/ json.isNull
     \/ /\ name \in {"get_top_holders", "get_token_holder_balance_changes",
                     "get_portfolio"}
        /\ json.listShape # "array"
     \/ /\ name = "get_average_entry_analysis"
        /\ (json.summary # "object" \/ json.listShape = "object")
     \/ /\ name = "get_two_token_overlap"
        /\ \/ json.token1 \notin {"bare", "full"}
           \/ json.token2 \notin {"bare", "full"}
           \/ json.listShape = "object"

\* C12 as stated: a 2xx payload whose required top-level field is absent or
\* of the wrong container shape, or that is null, makes the call fail with
\* InternalError and the message "Invalid response format from API".
C12_BrokenShapeIsInvalidFormat ==
  (Answered /\ C12_ShapeBroken) =>
    /\ Failed
    /\ outcome.code = "InternalError"
    /\ outcome.message = Msg("Invalid response format from API", 0, <<>>)

====
